---- MODULE Spec2Model ----
(***************************************************************************)
(* Meeting time tracker: the time-accounting and session-persistence      *)
(* engine.  The session state machine is the one of src/routes/index.tsx   *)
(* (startMeeting, pauseMeeting, completeCurrentItem, ...) over the state   *)
(* owned by the hooks useMeetingState (agenda list, history, the two       *)
(* localStorage records), useTimeCalculations (visibility handler, totals) *)
(* and useTimerState (the display clock and its interval).                 *)
(*                                                                         *)
(* Times are milliseconds.  An optional field (actualMinutes, startTime)   *)
(* is a sequence of length at most one: <<>> is JavaScript's undefined,    *)
(* <<v>> a defined value.  actualMinutes is kept in tenths of a minute     *)
(* (the code rounds to one decimal), so 2.1 min is <<21>>.                 *)
(***************************************************************************)
EXTENDS Integers, Sequences, FiniteSets, TLC

VARIABLES
    now,            \* Date.now(), the wall clock
    agendaItems,    \* useState<AgendaItem[]>
    isRunning,      \* useState(false): the global running flag
    meetingHistory, \* useState<Meeting[]>
    hidden,         \* document.hidden
    currentTime,    \* useState(Date.now()): the clock value the display reads
    intervals,      \* number of window.setInterval timers that are alive
    storedSession,  \* localStorage["active-meeting-session"]: <<>> or <<record>>
    storedHistory,  \* localStorage["meeting-history"]: <<>> or <<array>>
    listEdits,      \* history variable: number of requests that changed the list
    savedLog,       \* history variable: every meeting archived, newest first
    last            \* history variable: the last handler that ran

vars == <<now, agendaItems, isRunning, meetingHistory, hidden, currentTime,
          intervals, storedSession, storedHistory, listEdits, savedLog, last>>

----------------------------------------------------------------------------
(* Bounds of the model *)

Epoch == 10000
TickMs == 4000
MaxTicks == 1
MaxItems == 2
MaxListEdits == 1
MaxSaves == 1
MaxHistSaves == 12
MaxTurns == 15

(* Program constants *)

HistoryCap == 10

----------------------------------------------------------------------------
(* JavaScript values *)

Undefined == <<>>

Defined(o) == o # <<>>

\* JavaScript truthiness of an optional number: undefined and 0 are falsy.
Truthy(o) == o # <<>> /\ o[1] # 0

ItemFields == {"id", "name", "estimatedMinutes", "actualMinutes", "isActive",
               "startTime", "elapsedTime"}

OptionalFields == {"actualMinutes", "startTime"}

\* JSON.stringify of an agenda item: a key whose value is undefined is dropped.
Stringify(item) ==
    [k \in {f \in DOMAIN item : ~(f \in OptionalFields /\ item[f] = Undefined)}
        |-> item[k]]

\* JSON.parse of a stored item, read through the AgendaItem interface: a
\* missing key reads as undefined.
Parse(obj) ==
    [k \in ItemFields |-> IF k \in DOMAIN obj THEN obj[k] ELSE Undefined]

StringifyItems(items) == [i \in DOMAIN items |-> Stringify(items[i])]

ParseItems(objs) == [i \in DOMAIN objs |-> Parse(objs[i])]

Take(s, n) == IF Len(s) <= n THEN s ELSE SubSeq(s, 1, n)

\* Array.prototype.findIndex over the set of indices whose element satisfies
\* the predicate: the least of them, 1-based; 0 stands for JavaScript's -1.
FindIndex(matches) ==
    IF matches # {}
    THEN CHOOSE i \in matches : \A j \in matches : i <= j
    ELSE 0

----------------------------------------------------------------------------
(* Agenda items *)

NewItem(id, name, est) ==
    [id |-> id, name |-> name, estimatedMinutes |-> est,
     actualMinutes |-> Undefined, isActive |-> FALSE,
     startTime |-> Undefined, elapsedTime |-> 0]

SampleId(t, k) == "sample_" \o ToString(t) \o "_" \o ToString(k)

\* The fixed sample agenda used when no session can be restored.
SampleItems(t) ==
    << NewItem(SampleId(t, 1), "overview", 5),
       NewItem(SampleId(t, 2), "progress", 10),
       NewItem(SampleId(t, 3), "issues", 15),
       NewItem(SampleId(t, 4), "actions", 5) >>

IsActiveItem(item) == item.isActive

IsIncomplete(item) == ~Truthy(item.actualMinutes)

HasActual(item) == Truthy(item.actualMinutes)

\* getCurrentElapsed, with the clock value it reads as a parameter.
currentElapsed(item, t) ==
    IF item.isActive /\ Truthy(item.startTime)
    THEN item.elapsedTime + (t - item.startTime[1])
    ELSE item.elapsedTime

\* Variant of RoundTenths that truncates.
RoundTenthsDown(ms) == ms \div 6000

\* Math.round(x): floor(x + 0.5).  RoundTenths(ms) is
\* Math.round((ms / 60000) * 10), the number of tenths of a minute.
RoundTenths(ms) == (ms + 3000) \div 6000

----------------------------------------------------------------------------
(* The list transformations of the handlers *)

StartItems(items, fi, t) ==
    [i \in DOMAIN items |->
        [items[i] EXCEPT !.isActive = (i = fi),
                         !.startTime = IF i = fi THEN <<t>> ELSE @]]

\* Variant of PauseItems that closes the interval without banking it.
PauseItemsNoBank(items, t) ==
    [i \in DOMAIN items |->
        IF items[i].isActive /\ Truthy(items[i].startTime)
        THEN [items[i] EXCEPT !.startTime = Undefined]
        ELSE [items[i] EXCEPT !.isActive = FALSE]]

PauseItems(items, t) ==
    [i \in DOMAIN items |->
        IF items[i].isActive /\ Truthy(items[i].startTime)
        THEN [items[i] EXCEPT !.elapsedTime = @ + (t - items[i].startTime[1]),
                              !.startTime = Undefined]
        ELSE [items[i] EXCEPT !.isActive = FALSE]]

\* Variant of CompleteItems that activates the next item whether or not the
\* meeting is running.
CompleteItemsAlwaysNext(items, activeIndex, running, t) ==
    [i \in DOMAIN items |->
        IF i = activeIndex
        THEN LET totalElapsed ==
                    IF Truthy(items[i].startTime)
                    THEN items[i].elapsedTime + (t - items[i].startTime[1])
                    ELSE items[i].elapsedTime
             IN [items[i] EXCEPT !.isActive = FALSE,
                                 !.actualMinutes = <<RoundTenths(totalElapsed)>>,
                                 !.startTime = Undefined]
        ELSE IF i = activeIndex + 1
        THEN [items[i] EXCEPT !.isActive = TRUE, !.startTime = <<t>>]
        ELSE items[i]]

\* Variant of CompleteItems that leaves the completed item active.
CompleteItemsKeepActive(items, activeIndex, running, t) ==
    [i \in DOMAIN items |->
        IF i = activeIndex
        THEN LET totalElapsed ==
                    IF Truthy(items[i].startTime)
                    THEN items[i].elapsedTime + (t - items[i].startTime[1])
                    ELSE items[i].elapsedTime
             IN [items[i] EXCEPT !.actualMinutes = <<RoundTenths(totalElapsed)>>,
                                 !.startTime = Undefined]
        ELSE IF i = activeIndex + 1 /\ running
        THEN [items[i] EXCEPT !.isActive = TRUE, !.startTime = <<t>>]
        ELSE items[i]]

CompleteItems(items, activeIndex, running, t) ==
    [i \in DOMAIN items |->
        IF i = activeIndex
        THEN LET totalElapsed ==
                    IF Truthy(items[i].startTime)
                    THEN items[i].elapsedTime + (t - items[i].startTime[1])
                    ELSE items[i].elapsedTime
             IN [items[i] EXCEPT !.isActive = FALSE,
                                 !.actualMinutes = <<RoundTenths(totalElapsed)>>,
                                 !.startTime = Undefined]
        ELSE IF i = activeIndex + 1 /\ running
        THEN [items[i] EXCEPT !.isActive = TRUE, !.startTime = <<t>>]
        ELSE items[i]]

\* Variant of ResetItems that keeps the banked time.
ResetItemsKeepElapsed(items) ==
    [i \in DOMAIN items |->
        [items[i] EXCEPT !.isActive = FALSE, !.actualMinutes = Undefined,
                         !.startTime = Undefined]]

ResetItems(items) ==
    [i \in DOMAIN items |->
        [items[i] EXCEPT !.isActive = FALSE, !.actualMinutes = Undefined,
                         !.startTime = Undefined, !.elapsedTime = 0]]

\* Variant of HideItems that banks the interval without re-basing startTime.
HideItemsNoRebase(items, t) ==
    [i \in DOMAIN items |->
        IF items[i].isActive /\ Truthy(items[i].startTime)
        THEN [items[i] EXCEPT !.elapsedTime = @ + (t - items[i].startTime[1])]
        ELSE items[i]]

\* Variant of HideItems with the operands of the subtraction exchanged.
HideItemsBackwards(items, t) ==
    [i \in DOMAIN items |->
        IF items[i].isActive /\ Truthy(items[i].startTime)
        THEN [items[i] EXCEPT !.elapsedTime = @ + (items[i].startTime[1] - t),
                              !.startTime = <<t>>]
        ELSE items[i]]

HideItems(items, t) ==
    [i \in DOMAIN items |->
        IF items[i].isActive /\ Truthy(items[i].startTime)
        THEN [items[i] EXCEPT !.elapsedTime = @ + (t - items[i].startTime[1]),
                              !.startTime = <<t>>]
        ELSE items[i]]

ShowItems(items, t) ==
    [i \in DOMAIN items |->
        IF items[i].isActive
        THEN [items[i] EXCEPT !.startTime = <<t>>]
        ELSE items[i]]

\* Variant of RestoreItems that re-bases startTime without crediting the time
\* the process was unloaded.
RestoreItemsNoCredit(items, t) ==
    [i \in DOMAIN items |->
        IF items[i].isActive /\ Truthy(items[i].startTime)
        THEN [items[i] EXCEPT !.startTime = <<t>>]
        ELSE items[i]]

RestoreItems(items, t) ==
    [i \in DOMAIN items |->
        IF items[i].isActive /\ Truthy(items[i].startTime)
        THEN [items[i] EXCEPT !.elapsedTime = @ + (t - items[i].startTime[1]),
                              !.startTime = <<t>>]
        ELSE items[i]]

----------------------------------------------------------------------------
(* Durable storage *)

SessionRecord(items, running, t) ==
    [agendaItems |-> StringifyItems(items), isRunning |-> running, savedAt |-> t]

StringifyMeeting(m) ==
    [id |-> m.id, date |-> m.date, agendaItems |-> StringifyItems(m.agendaItems)]

ParseMeeting(m) ==
    [id |-> m.id, date |-> m.date, agendaItems |-> ParseItems(m.agendaItems)]

StringifyHistory(h) == [i \in DOMAIN h |-> StringifyMeeting(h[i])]

ParseHistory(h) == [i \in DOMAIN h |-> ParseMeeting(h[i])]

\* Variant of PersistSession that writes the state the handler started from.
PersistSessionStale(items, running) ==
    storedSession' = <<SessionRecord(agendaItems, isRunning, now)>>

\* The effect of useMeetingState that mirrors the session on every change of
\* agendaItems or isRunning.  A throwing setItem is caught and logged there
\* and changes no control flow; the write is taken to succeed.  (A failing
\* write is modelled in saveMeeting, where it decides what the handler does.)
PersistSession(items, running) ==
    storedSession' = <<SessionRecord(items, running, now)>>

\* What the history variable keeps of a handler: its name, the index idx of the
\* item it acted on (0: none), two numbers e and s and the time t it ran at.
Other == [op |-> "other", idx |-> 0, e |-> 0, s |-> 0, t |-> 0]

\* A stored value that JSON.parse rejects, or that parses to something with no
\* agendaItems array: the initializer throws inside its try block.
Malformed == [malformed |-> TRUE]

\* The stored value is present and the try block of the initializer does not
\* throw on it.
Restorable(session) == session # <<>> /\ "agendaItems" \in DOMAIN session[1]

\* Variant of InitialItems that falls back to an empty list.
InitialItemsNoSeed(session, t) ==
    IF Restorable(session)
    THEN RestoreItems(ParseItems(session[1].agendaItems), t)
    ELSE <<>>

\* The agendaItems initializer of useMeetingState.
InitialItems(session, t) ==
    IF Restorable(session)
    THEN RestoreItems(ParseItems(session[1].agendaItems), t)
    ELSE SampleItems(t)

\* The history-loading effect of useMeetingState.
InitialHistory(stored) ==
    IF stored # <<>> THEN ParseHistory(stored[1]) ELSE <<>>

----------------------------------------------------------------------------
(* The display clock *)

\* Variant of IntervalsAfter whose effect has no cleanup.
IntervalsAfterNoCleanup(alive, wasRunning, running) ==
    IF wasRunning = running
    THEN alive
    ELSE alive + (IF running THEN 1 ELSE 0)

\* The interval effect, with dependency [isRunning]: when the flag changes
\* (or the owner is torn down, which ends as running = FALSE) the cleanup of
\* the previous run clears the interval that run created, and the new run
\* creates one interval if running.
IntervalsAfter(alive, wasRunning, running) ==
    IF wasRunning = running
    THEN alive
    ELSE (IF wasRunning THEN alive - 1 ELSE alive) + (IF running THEN 1 ELSE 0)

----------------------------------------------------------------------------
(* Initial state: the hooks are mounted at time Epoch over the session an   *)
(* earlier run left behind: the first n items of the sample agenda of that  *)
(* run, the user having deleted the other (untouched) items.                *)

EarlierSession(n) ==
    SessionRecord(SubSeq(SampleItems(Epoch - TickMs), 1, n), FALSE, Epoch - TickMs)

InitOver(session) ==
    /\ now = Epoch
    /\ agendaItems = InitialItems(session, Epoch)
    /\ isRunning = FALSE
    /\ meetingHistory = InitialHistory(<<>>)
    /\ hidden = FALSE
    /\ currentTime = Epoch
    /\ intervals = IntervalsAfter(0, FALSE, FALSE)
    /\ storedSession = <<SessionRecord(agendaItems, FALSE, Epoch)>>
    /\ storedHistory = <<>>
    /\ listEdits = 0
    /\ savedLog = <<>>
    /\ last = Other

Init == InitOver(<<EarlierSession(1)>>)

InitArchive == InitOver(<<EarlierSession(2)>>)

----------------------------------------------------------------------------
(* The wall clock *)

TickTo(limit) ==
    /\ now < limit
    /\ now' = now + TickMs
    /\ UNCHANGED <<agendaItems, isRunning, meetingHistory, hidden, currentTime,
                   intervals, storedSession, storedHistory, listEdits, savedLog,
                   last>>

Tick == TickTo(Epoch + MaxTicks * TickMs)

----------------------------------------------------------------------------
(* Transitions of the session state machine *)

\* Variant of StartEnabled that does not look at the list.
StartEnabledAnyList(items, running) == ~running

StartEnabled(items, running) == Len(items) > 0 /\ ~running

startMeeting ==
    /\ IF StartEnabled(agendaItems, isRunning)
       THEN LET firstIncompleteIndex == FindIndex({i \in DOMAIN agendaItems : IsIncomplete(agendaItems[i])})
            IN /\ isRunning' = TRUE
               /\ intervals' = IntervalsAfter(intervals, isRunning, isRunning')
               /\ agendaItems' = IF firstIncompleteIndex # 0
                                 THEN StartItems(agendaItems, firstIncompleteIndex, now)
                                 ELSE agendaItems
               /\ PersistSession(agendaItems', isRunning')
               /\ last' = [op |-> "start", idx |-> firstIncompleteIndex,
                           e |-> IF last.op = "pause" THEN last.e ELSE 0,
                           s |-> IF last.op = "pause" THEN last.idx ELSE 0,
                           t |-> 0]
       ELSE /\ UNCHANGED <<agendaItems, isRunning, intervals, storedSession>>
            /\ last' = [Other EXCEPT !.op = "startIgnored"]
    /\ UNCHANGED <<now, meetingHistory, hidden, currentTime, storedHistory, listEdits,
                   savedLog>>

pauseMeeting ==
    /\ isRunning' = FALSE
    /\ intervals' = IntervalsAfter(intervals, isRunning, isRunning')
    /\ agendaItems' = PauseItems(agendaItems, now)
    /\ PersistSession(agendaItems', isRunning')
    /\ LET a == FindIndex({i \in DOMAIN agendaItems : IsActiveItem(agendaItems[i])})
       IN last' = [op |-> "pause", idx |-> a,
                   e |-> IF a # 0 THEN currentElapsed(agendaItems[a], now) ELSE 0,
                   s |-> 0, t |-> 0]
    /\ UNCHANGED <<now, meetingHistory, hidden, currentTime, storedHistory, listEdits,
                   savedLog>>

completeCurrentItem ==
    /\ LET activeIndex == FindIndex({i \in DOMAIN agendaItems : IsActiveItem(agendaItems[i])})
       IN IF activeIndex # 0
          THEN /\ agendaItems' =
                      CompleteItems(agendaItems, activeIndex, isRunning, now)
               /\ PersistSession(agendaItems', isRunning)
               /\ last' = [Other EXCEPT !.op = "complete", !.idx = activeIndex]
          ELSE /\ UNCHANGED <<agendaItems, storedSession>>
               /\ last' = [Other EXCEPT !.op = "complete"]
    /\ UNCHANGED <<now, isRunning, meetingHistory, hidden, currentTime, intervals,
                   storedHistory, listEdits, savedLog>>

resetMeeting ==
    /\ isRunning' = FALSE
    /\ intervals' = IntervalsAfter(intervals, isRunning, isRunning')
    /\ agendaItems' = ResetItems(agendaItems)
    /\ PersistSession(agendaItems', isRunning')
    /\ last' = [Other EXCEPT !.op = "reset"]
    /\ UNCHANGED <<now, meetingHistory, hidden, currentTime, storedHistory, listEdits,
                   savedLog>>

\* resetSession of useMeetingState: removeItem runs in the handler, and the
\* session effect runs after it because agendaItems changed.
resetSession ==
    /\ agendaItems' = ResetItems(agendaItems)
    /\ PersistSession(agendaItems', isRunning)
    /\ last' = [Other EXCEPT !.op = "resetSession"]
    /\ UNCHANGED <<now, isRunning, meetingHistory, hidden, currentTime, intervals,
                   storedHistory, listEdits, savedLog>>

AddChoices == {[name |-> "extra", est |-> 5]}

EditChoices == {[name |-> "edited", est |-> 20]}

\* onItemAdd.  The id is Date.now().toString(); two submissions of the add form
\* are never made in the same millisecond, so an id is not reused.
addAgendaItem ==
    /\ listEdits < MaxListEdits
    /\ Len(agendaItems) < MaxItems
    /\ \A i \in DOMAIN agendaItems : agendaItems[i].id # ToString(now)
    /\ \E c \in AddChoices :
          agendaItems' = Append(agendaItems, NewItem(ToString(now), c.name, c.est))
    /\ PersistSession(agendaItems', isRunning)
    /\ listEdits' = listEdits + 1
    /\ last' = Other
    /\ UNCHANGED <<now, isRunning, meetingHistory, hidden, currentTime, intervals,
                   storedHistory, savedLog>>

EditItems(items, id, newName, newEstimatedMinutes) ==
    [i \in DOMAIN items |->
        IF items[i].id = id
        THEN [items[i] EXCEPT !.name = newName,
                              !.estimatedMinutes = newEstimatedMinutes]
        ELSE items[i]]

editAgendaItem ==
    /\ listEdits < MaxListEdits
    /\ \E index \in DOMAIN agendaItems : \E c \in EditChoices :
          agendaItems' = EditItems(agendaItems, agendaItems[index].id, c.name, c.est)
    /\ PersistSession(agendaItems', isRunning)
    /\ listEdits' = listEdits + 1
    /\ last' = Other
    /\ UNCHANGED <<now, isRunning, meetingHistory, hidden, currentTime, intervals,
                   storedHistory, savedLog>>

\* Variant of DeleteDisabled that protects the active item only.
DeleteDisabledActiveOnly(item) == item.isActive

\* The delete button is disabled unless the item is an untouched pending item.
DeleteDisabled(item) ==
    item.isActive \/ item.elapsedTime > 0 \/ item.actualMinutes # Undefined

DeleteItems(items, id) ==
    LET Keep(item) == item.id # id IN SelectSeq(items, Keep)

\* A click on the delete button of row index.  A disabled button dispatches no
\* click event, so onItemDelete and deleteAgendaItem do not run; otherwise
\* onItemDelete(index) calls deleteAgendaItem(agendaItems[index].id).
deleteAgendaItem ==
    /\ \E index \in DOMAIN agendaItems :
          IF DeleteDisabled(agendaItems[index])
          THEN /\ UNCHANGED <<agendaItems, storedSession, listEdits>>
               /\ last' = [Other EXCEPT !.op = "deleteDisabled", !.idx = index]
          ELSE /\ listEdits < MaxListEdits
               /\ agendaItems' = DeleteItems(agendaItems, agendaItems[index].id)
               /\ PersistSession(agendaItems', isRunning)
               /\ listEdits' = listEdits + 1
               /\ last' = [Other EXCEPT !.op = "delete", !.idx = index]
    /\ UNCHANGED <<now, isRunning, meetingHistory, hidden, currentTime, intervals,
                   storedHistory, savedLog>>

----------------------------------------------------------------------------
(* Visibility reconciler *)

HasOpenInterval(item) == item.isActive /\ Truthy(item.startTime)

\* Variant of VisibilityBranch that does not look at the running flag.
VisibilityBranchAnyState(isHidden, running) ==
    IF isHidden THEN "hide" ELSE "show"

\* The branch of handleVisibilityChange that is taken.
VisibilityBranch(isHidden, running) ==
    IF isHidden /\ running THEN "hide"
    ELSE IF ~isHidden /\ running THEN "show"
    ELSE "none"

\* The visibilitychange event: document.hidden flips and the handler runs.
handleVisibilityChange ==
    /\ hidden' = ~hidden
    /\ LET branch == VisibilityBranch(hidden', isRunning)
       IN IF branch = "hide"
          THEN /\ agendaItems' = HideItems(agendaItems, now)
               /\ PersistSession(agendaItems', isRunning)
               /\ LET a == FindIndex({i \in DOMAIN agendaItems : HasOpenInterval(agendaItems[i])})
                  IN last' = IF a # 0
                             THEN [op |-> "hide", idx |-> a,
                                   e |-> agendaItems[a].elapsedTime,
                                   s |-> agendaItems[a].startTime[1], t |-> 0]
                             ELSE Other
          ELSE IF branch = "show"
          THEN /\ agendaItems' = ShowItems(agendaItems, now)
               /\ PersistSession(agendaItems', isRunning)
               /\ last' = IF last.op = "hide" THEN [last EXCEPT !.op = "show"] ELSE Other
          ELSE /\ UNCHANGED <<agendaItems, storedSession>>
               /\ last' = [Other EXCEPT !.op = "visibilityIgnored"]
    /\ UNCHANGED <<now, isRunning, meetingHistory, currentTime, intervals,
                   storedHistory, listEdits, savedLog>>

----------------------------------------------------------------------------
(* Process restart: the hooks are mounted again over the durable storage *)

reload ==
    /\ agendaItems' = InitialItems(storedSession, now)
    /\ isRunning' = FALSE
    /\ hidden' = FALSE
    /\ currentTime' = now
    /\ intervals' = IntervalsAfter(intervals, isRunning, isRunning')
    /\ meetingHistory' = InitialHistory(storedHistory)
    /\ PersistSession(agendaItems', isRunning')
    /\ LET saved == IF Restorable(storedSession)
                    THEN ParseItems(storedSession[1].agendaItems) ELSE <<>>
           a == FindIndex({i \in DOMAIN saved : HasOpenInterval(saved[i])})
       IN last' = [op |-> "restore", idx |-> a,
                   e |-> IF a # 0 THEN saved[a].elapsedTime ELSE 0,
                   s |-> IF a # 0 THEN saved[a].startTime[1] ELSE 0,
                   t |-> now]
    /\ UNCHANGED <<now, storedHistory, listEdits, savedLog>>

----------------------------------------------------------------------------
(* History archive *)

NewMeeting(items, t) ==
    [id |-> ToString(t), date |-> "iso_" \o ToString(t),
     agendaItems |-> SelectSeq(items, HasActual)]

\* Variant of SaveEffective that also accepts a list with nothing completed.
SaveEffectiveNonEmpty(items) == Len(items) > 0

SaveEffective(items) ==
    Len(items) > 0 /\ \E i \in DOMAIN items : Truthy(items[i].actualMinutes)

\* Variant of UpdatedHistory that never evicts.
UpdatedHistoryNoCap(meeting, history) == <<meeting>> \o history

UpdatedHistory(meeting, history) == Take(<<meeting>> \o history, HistoryCap)

\* Variant of SessionAfterSave that leaves the live-session record in place.
SessionAfterSaveKept(ok, session) == session

\* The live-session record after the try block of saveMeeting: removeItem is
\* reached only when setItem did not throw.
SessionAfterSave(ok, session) == IF ok THEN <<>> ELSE session

\* Variant of HistoryAfterSave that keeps the new history only when it was
\* stored.
HistoryAfterSaveStoredOnly(ok, updatedHistory, history) ==
    IF ok THEN updatedHistory ELSE history

\* The in-memory history after the try block of saveMeeting:
\* setMeetingHistory runs before setItem, so it has run when setItem throws.
HistoryAfterSave(ok, updatedHistory, history) == updatedHistory

\* Variant of saveMeetingWith that also returns every item to pending.
saveMeetingWithReset(cap, WriteOutcomes) ==
    /\ Len(savedLog) < cap
    /\ IF SaveEffective(agendaItems)
       THEN LET meeting == NewMeeting(agendaItems, now)
                updatedHistory == UpdatedHistory(meeting, meetingHistory)
            IN /\ savedLog' = <<meeting>> \o savedLog
               /\ agendaItems' = ResetItems(agendaItems)
               /\ \E ok \in WriteOutcomes :
                     /\ meetingHistory' =
                            HistoryAfterSave(ok, updatedHistory, meetingHistory)
                     /\ storedHistory' = IF ok THEN <<StringifyHistory(updatedHistory)>>
                                               ELSE storedHistory
                     /\ storedSession' = SessionAfterSave(ok, storedSession)
                     /\ last' = [op |-> "save", idx |-> 1, e |-> Len(savedLog'),
                                 s |-> IF ok THEN 1 ELSE 0, t |-> 0]
       ELSE /\ UNCHANGED <<meetingHistory, savedLog, storedHistory, storedSession,
                           agendaItems>>
            /\ last' = [Other EXCEPT !.op = "save"]
    /\ UNCHANGED <<now, isRunning, hidden, currentTime, intervals, listEdits>>

\* saveMeeting; localStorage.setItem either stores the history (ok) or throws
\* (quota exceeded).  WriteOutcomes is the set of outcomes the storage can give.
saveMeetingWith(cap, WriteOutcomes) ==
    /\ Len(savedLog) < cap
    /\ IF SaveEffective(agendaItems)
       THEN LET meeting == NewMeeting(agendaItems, now)
                updatedHistory == UpdatedHistory(meeting, meetingHistory)
            IN /\ savedLog' = <<meeting>> \o savedLog
               /\ \E ok \in WriteOutcomes :
                     /\ meetingHistory' =
                            HistoryAfterSave(ok, updatedHistory, meetingHistory)
                     /\ storedHistory' = IF ok THEN <<StringifyHistory(updatedHistory)>>
                                               ELSE storedHistory
                     /\ storedSession' = SessionAfterSave(ok, storedSession)
                     /\ last' = [op |-> "save", idx |-> 1, e |-> Len(savedLog'),
                                 s |-> IF ok THEN 1 ELSE 0, t |-> 0]
       ELSE /\ UNCHANGED <<meetingHistory, savedLog, storedHistory, storedSession>>
            /\ last' = [Other EXCEPT !.op = "save"]
    /\ UNCHANGED <<now, agendaItems, isRunning, hidden, currentTime, intervals,
                   listEdits>>

saveMeeting == saveMeetingWith(MaxSaves, BOOLEAN)

----------------------------------------------------------------------------
(* The session state machine with its persistence *)

Next ==
    \/ Tick
    \/ startMeeting
    \/ pauseMeeting
    \/ completeCurrentItem
    \/ resetMeeting
    \/ resetSession
    \/ addAgendaItem
    \/ editAgendaItem
    \/ deleteAgendaItem
    \/ handleVisibilityChange
    \/ reload

Spec == Init /\ [][Next]_vars

----------------------------------------------------------------------------
(* Archiving a meeting that was run through the state machine *)

NextArchive ==
    \/ Tick
    \/ startMeeting
    \/ pauseMeeting
    \/ completeCurrentItem
    \/ resetMeeting
    \/ resetSession
    \/ saveMeeting

SpecArchive == InitArchive /\ [][NextArchive]_vars

----------------------------------------------------------------------------
(* The history archive driven through the hook's own interface: each turn   *)
(* replaces the agenda list (setAgendaItems) or archives it (saveMeeting).  *)

\* A list of one completed item, as in the hook's test suite.
CompletedList(n) ==
    << [NewItem("item_" \o ToString(n), "Meeting " \o ToString(n), 10)
            EXCEPT !.actualMinutes = <<100>>, !.elapsedTime = 600000] >>

setAgendaItems ==
    /\ \E list \in {CompletedList(1), CompletedList(2)} :
          agendaItems' = list
    /\ PersistSession(agendaItems', isRunning)
    /\ last' = Other
    /\ UNCHANGED <<now, isRunning, meetingHistory, hidden, currentTime, intervals,
                   storedHistory, listEdits, savedLog>>

\* Here the storage accepts every write.
saveMeetingHistory == saveMeetingWith(MaxHistSaves, {TRUE})

NextHistory ==
    \/ setAgendaItems
    \/ saveMeetingHistory

SpecHistory == Init /\ [][NextHistory]_vars

----------------------------------------------------------------------------
(* Completion of an item, over a range of durations: the meeting was        *)
(* started at Epoch on an item that had banked some time in earlier runs,   *)
(* and the clock has moved on since.                                        *)

DurationChoices == {0, 1, 2999, 3000, 3001, 5999, 6000, 8999, 9000, 9001, 60000, 125000}

BankedChoices == {0, 1, 2999, 3000, 6000}

InitAdvance ==
    /\ \E d \in DurationChoices : now = Epoch + d
    /\ \E banked \in BankedChoices :
          agendaItems = << [NewItem(SampleId(Epoch - TickMs, 1), "overview", 5)
                                EXCEPT !.isActive = TRUE, !.startTime = <<Epoch>>,
                                       !.elapsedTime = banked] >>
    /\ isRunning = TRUE
    /\ meetingHistory = <<>>
    /\ hidden = FALSE
    /\ currentTime = Epoch
    /\ intervals = IntervalsAfter(0, FALSE, TRUE)
    /\ storedSession = <<SessionRecord(agendaItems, TRUE, Epoch)>>
    /\ storedHistory = <<>>
    /\ listEdits = 0
    /\ savedLog = <<>>
    /\ last = Other

NextAdvance ==
    \/ pauseMeeting
    \/ completeCurrentItem

SpecAdvance == InitAdvance /\ [][NextAdvance]_vars

----------------------------------------------------------------------------
(* Restart over a durable storage that something outside the hook changed:  *)
(* the user cleared the site data, or the key holds text that is not a      *)
(* session.                                                                 *)

storageReplaced ==
    /\ \E v \in {<<>>, <<Malformed>>} : storedSession' = v
    /\ last' = [Other EXCEPT !.op = "storageReplaced"]
    /\ UNCHANGED <<now, agendaItems, isRunning, meetingHistory, hidden, currentTime,
                   intervals, storedHistory, listEdits, savedLog>>

NextMount ==
    \/ Tick
    \/ startMeeting
    \/ completeCurrentItem
    \/ storageReplaced
    \/ reload

SpecMount == Init /\ [][NextMount]_vars

----------------------------------------------------------------------------
(* Properties of the session state machine *)

ActiveIndices == {i \in DOMAIN agendaItems : agendaItems[i].isActive}

\* C1: in every reachable state of the session at most one agenda item has
\* isActive = true.
C1_AtMostOneActive == Cardinality(ActiveIndices) <= 1

\* C1 witness: an advance has just moved the activation to the next item.
C1_Witness ==
    /\ last.op = "complete"
    /\ last.idx + 1 \in DOMAIN agendaItems
    /\ ActiveIndices = {last.idx + 1}

\* C2 as stated: every item satisfies isActive => (startTime defined and
\* actualMinutes undefined), and actualMinutes defined => (not isActive and
\* startTime undefined).
C2_ItemFieldsConsistent ==
    \A i \in DOMAIN agendaItems :
        LET item == agendaItems[i]
        IN /\ item.isActive =>
                Defined(item.startTime) /\ ~Defined(item.actualMinutes)
           /\ Defined(item.actualMinutes) =>
                ~item.isActive /\ ~Defined(item.startTime)

\* C3 as stated: after a hide at H and a show at V >= H while running, the
\* active item's current elapsed time at every later time t is what it would
\* have been without the two events: elapsedTime_before + (t - startTime_before).
C3_VisibilityKeepsElapsed ==
    last.op = "show" =>
        currentElapsed(agendaItems[last.idx], now) = last.e + (now - last.s)

\* C4: a restore at time T1 turns every item saved with isActive and
\* startTime = T0 into an item with elapsedTime = elapsedTime_saved + (T1 - T0)
\* and startTime = T1, and leaves every non-active item exactly as saved.
C4_RestoreCreditsUnloadedTime ==
    [][ (last'.op = "restore" /\ last' # last /\ storedSession # <<>>) =>
          LET saved == storedSession[1].agendaItems
          IN /\ Len(agendaItems') = Len(saved)
             /\ \A i \in DOMAIN saved :
                   /\ ( saved[i].isActive /\ "startTime" \in DOMAIN saved[i] ) =>
                        /\ agendaItems'[i].elapsedTime =
                              saved[i].elapsedTime + (now - saved[i].startTime[1])
                        /\ agendaItems'[i].startTime = <<now>>
                        /\ agendaItems'[i].isActive
                        /\ agendaItems'[i].id = saved[i].id
                   /\ ~saved[i].isActive =>
                        Stringify(agendaItems'[i]) = saved[i] ]_vars

\* C4 witness: a session was restored at T1 > T0 with an active item and a
\* non-active item in it.
C4_Witness ==
    /\ last.op = "restore"
    /\ last.idx # 0
    /\ last.t > last.s
    /\ agendaItems[last.idx].elapsedTime = last.e + (last.t - last.s)
    /\ \E i \in DOMAIN agendaItems : ~agendaItems[i].isActive

\* C5: pause at t1 followed by a start at t2 >= t1 that resumes the same item
\* preserves the item's total elapsed time: its current elapsed time right
\* after the start equals the one right before the pause.
C5_PauseStartPreservesElapsed ==
    [][ (last.op = "pause" /\ last'.op = "start" /\ last.idx # 0
            /\ last'.idx = last.idx) =>
          currentElapsed(agendaItems'[last.idx], now') = last.e ]_vars

\* C5 witness: the start after a pause resumed the paused item, which had
\* accrued time before the pause.
C5_Witness ==
    /\ last.op = "start"
    /\ last.idx # 0
    /\ last.s = last.idx
    /\ last.e > 0
    /\ agendaItems[last.idx].isActive

----------------------------------------------------------------------------
(* Properties of the history archive *)

Min(a, b) == IF a <= b THEN a ELSE b

\* C6: after any number n of effective saveMeeting calls the history is
\* exactly the min(n, 10) most recently saved meetings, newest first: it never
\* exceeds 10 entries and a save beyond the cap evicts the oldest.
C6_HistoryIsNewestTen ==
    /\ Len(meetingHistory) <= 10
    /\ meetingHistory = SubSeq(savedLog, 1, Min(Len(savedLog), 10))

\* C6 witness: after 12 saves the first entry is the 12th save and the last
\* the 3rd, and they differ from their neighbours in the sequence of saves.
C6_Witness ==
    /\ Len(savedLog) = 12
    /\ Len(meetingHistory) = 10
    /\ meetingHistory[1] = savedLog[1]
    /\ meetingHistory[10] = savedLog[10]
    /\ savedLog[1] # savedLog[2]
    /\ savedLog[10] # savedLog[11]

HasActualDefined(item) == Defined(item.actualMinutes)

\* C7 as stated: an effective saveMeeting prepends a Meeting whose agendaItems
\* are exactly the items of the current list that have actualMinutes defined,
\* in list order.
C7_ArchivesEveryItemWithActual ==
    (last.op = "save" /\ last.idx = 1) =>
        meetingHistory[1].agendaItems = SelectSeq(agendaItems, HasActualDefined)

\* C8: when no agenda item has actualMinutes set, saveMeeting is a no-op: the
\* in-memory history and both persisted records are unchanged.
C8_SaveWithoutActualIsNoOp ==
    [][ (last'.op = "save"
            /\ \A i \in DOMAIN agendaItems : ~Defined(agendaItems[i].actualMinutes)) =>
          UNCHANGED <<meetingHistory, storedHistory, storedSession>> ]_vars

\* C8 witness: saveMeeting was called on a non-empty list with no actualMinutes.
C8_Witness ==
    /\ last.op = "save"
    /\ last.idx = 0
    /\ Len(agendaItems) > 0
    /\ \A i \in DOMAIN agendaItems : ~Defined(agendaItems[i].actualMinutes)
    /\ storedSession # <<>>

----------------------------------------------------------------------------
(* Properties of the transitions of the session state machine.  A step of   *)
(* handler h is a step that leaves the clock alone and ends with last.op    *)
(* naming h: Tick is the only action that moves the clock, and every other  *)
(* action names itself in last.                                             *)

\* C11 as stated: after pause the running flag is false, no item is active
\* and no item has a startTime; the item that was active has its elapsedTime
\* increased by exactly now - startTime and every other elapsedTime is
\* unchanged.
C11_PauseDeactivatesAndBanks ==
    [][ (last'.op = "pause" /\ now' = now) =>
          /\ ~isRunning'
          /\ Len(agendaItems') = Len(agendaItems)
          /\ \A i \in DOMAIN agendaItems :
                /\ ~agendaItems'[i].isActive
                /\ ~Defined(agendaItems'[i].startTime)
                /\ agendaItems'[i].elapsedTime =
                      IF agendaItems[i].isActive /\ Defined(agendaItems[i].startTime)
                      THEN agendaItems[i].elapsedTime
                              + (now - agendaItems[i].startTime[1])
                      ELSE agendaItems[i].elapsedTime ]_vars

\* C12 as stated: when the meeting is not running and the list is non-empty,
\* start sets the running flag and makes the first item in list order that
\* has no actualMinutes the active item with startTime = now; no other item
\* is active afterwards and no elapsedTime changes.
C12_StartActivatesFirstWithoutActual ==
    [][ (last'.op = "start" /\ now' = now /\ ~isRunning /\ Len(agendaItems) > 0) =>
          LET first == FindIndex({i \in DOMAIN agendaItems :
                                    ~Defined(agendaItems[i].actualMinutes)})
          IN /\ isRunning'
             /\ Len(agendaItems') = Len(agendaItems)
             /\ first # 0 => /\ agendaItems'[first].isActive
                             /\ agendaItems'[first].startTime = <<now>>
             /\ \A i \in DOMAIN agendaItems :
                   /\ i # first => ~agendaItems'[i].isActive
                   /\ agendaItems'[i].elapsedTime = agendaItems[i].elapsedTime ]_vars

\* C13: start is a pure no-op, leaving the agenda list and the running flag
\* (and with them the stored records) unchanged, when the agenda list is
\* empty or the meeting is already running.
C13_StartIgnoredIsNoOp ==
    [][ (last'.op \in {"start", "startIgnored"} /\ now' = now
            /\ (agendaItems = <<>> \/ isRunning)) =>
          UNCHANGED <<agendaItems, isRunning, storedSession, meetingHistory,
                      storedHistory>> ]_vars

\* C13 witness: start was called on an empty list.
C13_Witness ==
    /\ last.op = "startIgnored"
    /\ agendaItems = <<>>
    /\ ~isRunning

\* C14 as stated: whenever the running flag is true, some agenda item is
\* active.
C14_RunningHasActiveItem == isRunning => ActiveIndices # {}

\* C15: advance deactivates the active item and clears its startTime; if
\* and only if the meeting is running and a next item exists in list order,
\* that next item becomes the active item with startTime = now; otherwise no
\* item is active afterwards; when no item is active, advance changes nothing.
C15_AdvanceMovesActivation ==
    [][ (last'.op = "complete" /\ now' = now) =>
          LET a == FindIndex(ActiveIndices)
          IN IF a = 0
             THEN agendaItems' = agendaItems
             ELSE /\ Len(agendaItems') = Len(agendaItems)
                  /\ ~agendaItems'[a].isActive
                  /\ ~Defined(agendaItems'[a].startTime)
                  /\ IF isRunning /\ a + 1 \in DOMAIN agendaItems
                     THEN /\ ActiveIndices' = {a + 1}
                          /\ agendaItems'[a + 1].startTime = <<now>>
                     ELSE ActiveIndices' = {} ]_vars

\* C15 witness: an advance made while paused, with a next item in the list,
\* left no item active.
C15_Witness ==
    /\ last.op = "complete"
    /\ last.idx # 0
    /\ last.idx + 1 \in DOMAIN agendaItems
    /\ ~isRunning
    /\ ActiveIndices = {}
    /\ Defined(agendaItems[last.idx].actualMinutes)
    /\ ~Defined(agendaItems[last.idx].startTime)

\* C16: advance sets the completed item's actualMinutes to its total elapsed
\* time (elapsedTime + (now - startTime) when a startTime exists, else
\* elapsedTime) in tenths of a minute, rounded to the nearest tenth with
\* halves rounded up; for elapsedTime = 0 and startTime = now - 125000 the
\* result is 2.1.
C16_ActualMinutesRounded ==
    [][ (last'.op = "complete" /\ now' = now /\ last'.idx # 0) =>
          LET before == agendaItems[last'.idx]
              total == IF Defined(before.startTime)
                       THEN before.elapsedTime + (now - before.startTime[1])
                       ELSE before.elapsedTime
              actual == agendaItems'[last'.idx].actualMinutes
          IN /\ Defined(actual)
             /\ 6000 * actual[1] - 3000 <= total
             /\ total < 6000 * actual[1] + 3000
             /\ (before.elapsedTime = 0 /\ before.startTime = <<now - 125000>>)
                   => actual = <<21>> ]_vars

\* C16 witness: an item with nothing banked was completed 125000 ms after its
\* start and got 2.1 minutes.
C16_Witness ==
    /\ last.op = "complete"
    /\ last.idx = 1
    /\ now = Epoch + 125000
    /\ agendaItems[1].elapsedTime = 0
    /\ agendaItems[1].actualMinutes = <<21>>

ItemsReset(before, after) ==
    /\ Len(after) = Len(before)
    /\ \A i \in DOMAIN before :
          /\ ~after[i].isActive
          /\ ~Defined(after[i].actualMinutes)
          /\ ~Defined(after[i].startTime)
          /\ after[i].elapsedTime = 0
          /\ after[i].id = before[i].id
          /\ after[i].name = before[i].name
          /\ after[i].estimatedMinutes = before[i].estimatedMinutes

\* C17 as stated: after reset (resetMeeting of the route, resetSession of
\* the hook) the running flag is false and every item has isActive = false,
\* actualMinutes undefined, startTime undefined and elapsedTime = 0, while
\* ids, names, estimates, the list order and the meeting history are
\* unchanged.
C17_ResetStopsAndClears ==
    [][ (last'.op \in {"reset", "resetSession"} /\ now' = now) =>
          /\ ~isRunning'
          /\ ItemsReset(agendaItems, agendaItems')
          /\ meetingHistory' = meetingHistory ]_vars

\* C17 amended: both resets return every item to pending and keep ids, names,
\* estimates, the list order and the meeting history; resetMeeting also sets
\* the running flag to false, resetSession leaves the running flag as it is.
C17_ResetClearsItems ==
    [][ (last'.op \in {"reset", "resetSession"} /\ now' = now) =>
          /\ ItemsReset(agendaItems, agendaItems')
          /\ meetingHistory' = meetingHistory
          /\ last'.op = "reset" => ~isRunning'
          /\ last'.op = "resetSession" => isRunning' = isRunning ]_vars

\* C17 witness: resetSession ran on a running meeting that had been archived
\* (so it had completed items): the items are pending, the history is kept
\* and the flag is still set.
C17_Witness ==
    /\ last.op = "resetSession"
    /\ isRunning
    /\ meetingHistory # <<>>
    /\ ItemsReset(agendaItems, agendaItems)

----------------------------------------------------------------------------
(* Properties of the durable session record *)

\* C18: after every transition that changes the agenda item list or the
\* running flag (and whose storage write succeeds), the record stored under
\* active-meeting-session holds agendaItems and isRunning equal to the live
\* list and flag.
C18_SessionRecordMirrorsLiveState ==
    [][ (agendaItems' # agendaItems \/ isRunning' # isRunning) =>
          /\ storedSession' # <<>>
          /\ ParseItems(storedSession'[1].agendaItems) = agendaItems'
          /\ storedSession'[1].isRunning = isRunning' ]_vars

\* C18 witness: an advance made after the clock moved was written to the
\* record at that time.
C18_Witness ==
    /\ last.op = "complete"
    /\ last.idx # 0
    /\ now > Epoch
    /\ storedSession # <<>>
    /\ storedSession[1].savedAt = now
    /\ ParseItems(storedSession[1].agendaItems) = agendaItems
    /\ storedSession[1].isRunning = isRunning
    /\ Defined(agendaItems[last.idx].actualMinutes)

\* C19: when the active-meeting-session record is missing or cannot be
\* parsed, initialization yields the fixed seed list of four pending items
\* (isActive false, elapsedTime 0, no startTime, no actualMinutes), and no
\* error propagates: the mount completes.
C19_SeedWhenRecordUnusable ==
    [][ (last'.op = "restore" /\ now' = now
            /\ (storedSession = <<>> \/ storedSession = <<Malformed>>)) =>
          /\ Len(agendaItems') = 4
          /\ \A i \in DOMAIN agendaItems' :
                /\ ~agendaItems'[i].isActive
                /\ agendaItems'[i].elapsedTime = 0
                /\ ~Defined(agendaItems'[i].startTime)
                /\ ~Defined(agendaItems'[i].actualMinutes)
                /\ agendaItems'[i].id = SampleId(now, i)
          /\ [i \in DOMAIN agendaItems' |-> agendaItems'[i].estimatedMinutes]
                = <<5, 10, 15, 5>>
          /\ ~isRunning' ]_vars

\* C19 witness: a mount after the clock moved produced the seed list.
C19_Witness ==
    /\ last.op = "restore"
    /\ last.t = now
    /\ now > Epoch
    /\ Len(agendaItems) = 4
    /\ agendaItems = SampleItems(now)

----------------------------------------------------------------------------
(* Properties of the list editing policy *)

\* C20: delete removes an item only if it is an untouched pending item
\* (isActive = false, elapsedTime = 0, actualMinutes undefined); requested
\* for any other item it is a no-op that leaves the agenda list unchanged.
C20_DeleteOnlyUntouchedPending ==
    [][ (last'.op \in {"delete", "deleteDisabled"} /\ now' = now) =>
          LET index == last'.idx
              item == agendaItems[index]
          IN IF ~item.isActive /\ item.elapsedTime = 0 /\ ~Defined(item.actualMinutes)
             THEN agendaItems' = SubSeq(agendaItems, 1, index - 1)
                                    \o SubSeq(agendaItems, index + 1, Len(agendaItems))
             ELSE agendaItems' = agendaItems ]_vars

\* C20 witness: delete was requested for a paused item with banked time and
\* the item is still in the list.
C20_Witness ==
    /\ last.op = "deleteDisabled"
    /\ last.idx \in DOMAIN agendaItems
    /\ ~agendaItems[last.idx].isActive
    /\ agendaItems[last.idx].elapsedTime > 0
    /\ ~Defined(agendaItems[last.idx].actualMinutes)

----------------------------------------------------------------------------
(* Properties of the visibility reconciler *)

\* C22: while the meeting is not running, a visibility event, to the
\* background or to the foreground, leaves the agenda item list unchanged.
C22_VisibilityInertWhenNotRunning ==
    [][(hidden' # hidden /\ last'.op # "restore" /\ ~isRunning)
          => agendaItems' = agendaItems]_vars

\* A foreground event was ignored while a paused meeting had an active item
\* with banked time.
C22_Witness ==
    /\ last.op = "visibilityIgnored"
    /\ ~isRunning
    /\ ~hidden
    /\ \E i \in DOMAIN agendaItems :
          agendaItems[i].isActive /\ agendaItems[i].elapsedTime > 0

\* C25: on a background event at time H while the meeting is running, every
\* active item with a startTime gets elapsedTime increased by H - startTime
\* and startTime set to H, so that its currentElapsed at H is unchanged; every
\* other item is left unchanged.
C25_BackgroundBanksOpenInterval ==
    [][(hidden' /\ ~hidden /\ isRunning)
          => /\ Len(agendaItems') = Len(agendaItems)
             /\ \A i \in DOMAIN agendaItems :
                   LET item == agendaItems[i]
                       after == agendaItems'[i]
                   IN IF item.isActive /\ Defined(item.startTime)
                      THEN /\ after = [item EXCEPT
                                          !.elapsedTime = item.elapsedTime
                                                            + (now - item.startTime[1]),
                                          !.startTime = <<now>>]
                           /\ currentElapsed(after, now) = currentElapsed(item, now)
                      ELSE after = item]_vars

\* A background event has just banked a non-empty interval of the active item
\* of a running meeting, next to an item that is not active.
C25_Witness ==
    /\ last.op = "hide"
    /\ hidden
    /\ isRunning
    /\ now > last.s
    /\ agendaItems[last.idx].startTime = <<now>>
    /\ agendaItems[last.idx].elapsedTime = last.e + (now - last.s)
    /\ \E j \in DOMAIN agendaItems : ~agendaItems[j].isActive

----------------------------------------------------------------------------
(* Properties of the time accounting *)

ResetOps == {"reset", "resetSession"}

\* C23: with a non-decreasing wall clock, every item's banked elapsedTime is
\* >= 0 in every reachable state, and no transition other than a reset
\* decreases the banked elapsedTime of an item (items are matched by id).
C23_ElapsedTimeMonotonic ==
    [][/\ now' >= now
       /\ \A i \in DOMAIN agendaItems : agendaItems[i].elapsedTime >= 0
       /\ \A j \in DOMAIN agendaItems' : agendaItems'[j].elapsedTime >= 0
       /\ ~(last'.op \in ResetOps /\ now' = now)
             => \A i \in DOMAIN agendaItems : \A j \in DOMAIN agendaItems' :
                   agendaItems'[j].id = agendaItems[i].id
                      => agendaItems'[j].elapsedTime >= agendaItems[i].elapsedTime]_vars

\* A pause has banked a non-empty interval of the active item.
C23_Witness ==
    /\ last.op = "pause"
    /\ last.idx # 0
    /\ ~isRunning
    /\ agendaItems[last.idx].elapsedTime = last.e
    /\ agendaItems[last.idx].elapsedTime >= TickMs

\* Sum of f over a sequence of numbers, left to right as Array.reduce does.
RECURSIVE SumSeq(_)
SumSeq(s) == IF s = <<>> THEN 0 ELSE s[1] + SumSeq(Tail(s))

\* totalElapsed, with the clock value getCurrentElapsed reads as a parameter.
\* actualMinutes is in tenths of a minute, so actualMinutes * 60000 ms is
\* 6000 ms per tenth.
totalElapsed(items, t) ==
    SumSeq([i \in DOMAIN items |->
               IF Truthy(items[i].actualMinutes)
               THEN items[i].actualMinutes[1] * 6000
               ELSE currentElapsed(items[i], t)])

\* C24: totalElapsed(items, now) is the sum over the items of
\* actualMinutes x 60000 for every item whose actualMinutes is defined and of
\* currentElapsed(item, now) for every other item.
C24_TotalElapsedBySum ==
    totalElapsed(agendaItems, now) =
        SumSeq([i \in DOMAIN agendaItems |->
                   IF Defined(agendaItems[i].actualMinutes)
                   THEN agendaItems[i].actualMinutes[1] * 6000
                   ELSE currentElapsed(agendaItems[i], now)])

\* C30: if pause is followed by start with no other transition in between,
\* the item that start activates is the item that was active when the pause
\* occurred.
C30_StartResumesPausedItem ==
    [][(last.op = "pause" /\ last.idx # 0 /\ last'.op = "start")
          => /\ last'.idx = last.idx
             /\ agendaItems'[last.idx].isActive]_vars

----------------------------------------------------------------------------
(* Properties of the durable records *)

\* C26: after resetSession has completed, the active-meeting-session record
\* is absent from durable storage.
C26_SessionAbsentAfterResetSession ==
    last.op = "resetSession" => storedSession = <<>>

\* C27: if the durable write of the history fails during an effective
\* saveMeeting, no error propagates (the handler returns with the live
\* session as it was, and the stored history as it was) and the in-memory
\* history has the new meeting as its first entry.
C27_FailedWriteKeepsMemoryHistory ==
    [][(last'.op = "save" /\ last'.idx = 1 /\ last'.s = 0 /\ now' = now)
          => /\ meetingHistory' # <<>>
             /\ meetingHistory'[1] =
                   [id |-> ToString(now), date |-> "iso_" \o ToString(now),
                    agendaItems |-> SelectSeq(agendaItems, HasActual)]
             /\ Tail(meetingHistory') = Take(meetingHistory, HistoryCap - 1)
             /\ storedHistory' = storedHistory
             /\ UNCHANGED <<agendaItems, isRunning>>]_vars

\* An effective save whose write failed: the meeting is in the in-memory
\* history and not in the stored one.
C27_Witness ==
    /\ last.op = "save"
    /\ last.idx = 1
    /\ last.s = 0
    /\ meetingHistory # <<>>
    /\ meetingHistory[1] = savedLog[1]
    /\ storedHistory = <<>>

----------------------------------------------------------------------------
(* The history archive driven as the hook's test of the history cap drives  *)
(* it: the hook is mounted over an empty storage, and each turn replaces    *)
(* the agenda list by one completed item and calls saveMeeting in that same *)
(* turn.                                                                    *)

InitSeed == InitOver(<<>>)

\* Variant of ClosureItems in which saveMeeting sees the list that was queued
\* in the same turn.
ClosureItemsQueued(rendered, queued) == queued

\* The agendaItems that saveMeeting reads: those of the render that created
\* the function, whatever setAgendaItems has queued since.
ClosureItems(rendered, queued) == rendered

\* One turn: setAgendaItems([M_i]); saveMeeting().  i counts the turns.  The
\* session effect runs after the turn, the list having changed.
setAgendaItemsAndSave ==
    /\ listEdits < MaxTurns
    /\ LET list == CompletedList(listEdits)
           closure == ClosureItems(agendaItems, list)
       IN /\ agendaItems' = list
          /\ listEdits' = listEdits + 1
          /\ IF SaveEffective(closure)
             THEN LET meeting == NewMeeting(closure, now)
                      updatedHistory == UpdatedHistory(meeting, meetingHistory)
                  IN /\ meetingHistory' =
                           HistoryAfterSave(TRUE, updatedHistory, meetingHistory)
                     /\ storedHistory' = <<StringifyHistory(updatedHistory)>>
                     /\ savedLog' = <<meeting>> \o savedLog
                     /\ last' = [op |-> "setAndSave", idx |-> 1,
                                 e |-> Len(savedLog'), s |-> 1, t |-> 0]
             ELSE /\ UNCHANGED <<meetingHistory, storedHistory, savedLog>>
                  /\ last' = [Other EXCEPT !.op = "setAndSave"]
    /\ PersistSession(agendaItems', isRunning)
    /\ UNCHANGED <<now, isRunning, hidden, currentTime, intervals>>

NextTurns ==
    \/ Tick
    \/ setAgendaItemsAndSave

SpecTurns == InitSeed /\ [][NextTurns]_vars

Max(a, b) == IF a >= b THEN a ELSE b

\* C28: saveMeeting archives the agenda list as it was when the current turn
\* began.  A turn that replaces the list by the single completed item M_i
\* and calls saveMeeting archives the list of the previous turn (nothing in
\* the first turn, the seed list having nothing completed), so after n such
\* turns the history holds M_(n-2) first and, capped at ten entries,
\* M_(max(0, n-11)) last: after 15 turns, ten entries from M_13 to M_4.
C28_SaveArchivesListOfPreviousTurn ==
    [][(last'.op = "setAndSave" /\ now' = now)
          => LET n == listEdits'
             IN /\ agendaItems' = CompletedList(n - 1)
                /\ IF \E i \in DOMAIN agendaItems : HasActual(agendaItems[i])
                   THEN /\ meetingHistory'[1].agendaItems =
                              SelectSeq(agendaItems, HasActual)
                        /\ Tail(meetingHistory') = Take(meetingHistory, HistoryCap - 1)
                   ELSE meetingHistory' = meetingHistory
                /\ Len(meetingHistory') = Min(n - 1, HistoryCap)
                /\ n >= 2 =>
                      /\ meetingHistory'[1].agendaItems = CompletedList(n - 2)
                      /\ meetingHistory'[Len(meetingHistory')].agendaItems =
                            CompletedList(Max(0, n - 1 - HistoryCap))
                /\ n = 15 =>
                      /\ Len(meetingHistory') = 10
                      /\ meetingHistory'[1].agendaItems[1].name = "Meeting 13"
                      /\ meetingHistory'[10].agendaItems[1].name = "Meeting 4"]_vars

\* Fifteen turns have run from the seed list.
C28_Witness ==
    /\ last.op = "setAndSave"
    /\ listEdits = 15
    /\ agendaItems = CompletedList(14)
    /\ Len(savedLog) = 14
    /\ Len(meetingHistory) = 10
    /\ meetingHistory[1].agendaItems = CompletedList(13)
    /\ meetingHistory[10].agendaItems = CompletedList(4)

----------------------------------------------------------------------------
(* The display clock: while an interval is alive its callback copies the    *)
(* wall clock into currentTime, once a second.  The wall clock runs one     *)
(* tick further here, so that a stopped display clock can fall behind.      *)

setCurrentTime ==
    /\ intervals > 0
    /\ currentTime' = now
    /\ last' = [Other EXCEPT !.op = "setCurrentTime"]
    /\ UNCHANGED <<now, agendaItems, isRunning, meetingHistory, hidden, intervals,
                   storedSession, storedHistory, listEdits, savedLog>>

TickClock == TickTo(Epoch + (MaxTicks + 1) * TickMs)

NextClock ==
    \/ TickClock
    \/ setCurrentTime
    \/ startMeeting
    \/ pauseMeeting
    \/ completeCurrentItem
    \/ resetMeeting
    \/ reload

SpecClock == Init /\ [][NextClock]_vars

\* C21: a clock refresh interval is alive only while running is true and the
\* owner is mounted: at most one interval is alive at any time, none is alive
\* once running has become false or the owner has been torn down (a restart
\* tears the owner down and mounts it again, not running), and while running
\* is false currentTime is not refreshed: it keeps its value until the owner
\* is mounted again.
C21_IntervalOnlyWhileRunning ==
    [][/\ intervals <= 1 /\ intervals' <= 1
       /\ intervals > 0 => isRunning
       /\ intervals' > 0 => isRunning'
       /\ ~isRunning' => intervals' = 0
       /\ (last'.op = "restore" /\ now' = now) => intervals' = 0
       /\ (~isRunning /\ ~(last'.op = "restore" /\ now' = now))
             => currentTime' = currentTime]_vars

\* The interval refreshed currentTime while the meeting ran, the pause
\* cancelled it, and the wall clock has moved on since.
C21_Witness ==
    /\ last.op = "pause"
    /\ ~isRunning
    /\ intervals = 0
    /\ currentTime > Epoch
    /\ currentTime < now

\* C29: in every reachable state the clock value used for display is not
\* earlier than the active item's startTime, so the displayed currentElapsed
\* of the active item is not smaller than its banked elapsedTime and not
\* negative.
C29_DisplayClockNotBeforeStart ==
    \A i \in DOMAIN agendaItems :
        (agendaItems[i].isActive /\ Defined(agendaItems[i].startTime))
           => /\ currentTime >= agendaItems[i].startTime[1]
              /\ currentElapsed(agendaItems[i], currentTime)
                    >= agendaItems[i].elapsedTime
              /\ currentElapsed(agendaItems[i], currentTime) >= 0

====
